---- MODULE Spec2Model ----
(***************************************************************************)
(* doReduce of src/mapreduce/common_reduce.go: one reduce task of a        *)
(* map/reduce job.  An invocation opens its nMap intermediate files,       *)
(* decodes their records into the map kvs, sorts the keys, opens outFile   *)
(* in create/append mode and writes one record per key.                    *)
(*                                                                         *)
(* Text (keys and values) is a sequence of bytes, so that the byte-wise    *)
(* order sort.Strings uses is computed and not assumed.  A file of the     *)
(* intermediate data is the sequence of items a json.Decoder meets in it:  *)
(* an encoded KeyValue with its two fields, as doMap's encoder writes it,   *)
(* or an item on which Decode returns an error.                            *)
(* reduceF is supplied by the caller: its result is kept as the term       *)
(* reduceF(key, values), which every deterministic reduce function is an   *)
(* image of.  Writes to an open file are taken to succeed (Encode's error  *)
(* is not looked at by the code).                                          *)
(***************************************************************************)
EXTENDS Integers, Sequences, FiniteSets, TLC

VARIABLES
    shards,     \* shards[t][m]: the intermediate file reduceName(jobName, m-1, reduceTask) of invocation t
    files,      \* files[p]: the file at output path p
    outFile,    \* outFile[t]: the output path argument of invocation t
    pc,         \* pc[t]: the place of invocation t in doReduce
    i,          \* i[t]: the loop variable of the open loop, then of the read loop
    decoders,   \* decoders[t][m]: records already decoded from shard m, Nil before it is opened
    kv,         \* kv[t]: the record of the last successful Decode
    kvs,        \* kvs[t]: the map key -> values
    keys,       \* keys[t]: the slice of keys
    n,          \* n[t]: keys already handled by the last loop
    res,        \* res[t]: the value reduceF returned, not yet encoded
    calls,      \* calls[t]: the reduceF invocations of this run, in order
    run,        \* run[t]: how many times the task has been invoked
    before      \* before[t]: the output file as the current run found it

vars == <<shards, files, outFile, pc, i, decoders, kv, kvs, keys, n, res, calls, run, before>>

----------------------------------------------------------------------------
\* Bounds of the model.
MaxMap == 2         \* nMap ranges over 0..MaxMap
MaxRecs == 3        \* items in the intermediate files of one task, all together
MaxRuns == 2        \* invocations of one task against the same files
ConcMaxMap == 1     \* the same two, when two invocations run together
ConcMaxRecs == 2

Nil == -1

\* Text: "a" < "ab" < "b" in byte order.
KeyA == <<97>>
KeyAB == <<97, 98>>
KeyB == <<98>>
Val1 == <<49>>
Val2 == <<50>>

KeyValue(k, v) == [ok |-> TRUE, Key |-> k, Value |-> v]
Malformed == [ok |-> FALSE, Key |-> <<>>, Value |-> <<>>]
NilKV == [ok |-> FALSE, Key |-> <<>>, Value |-> <<>>]

Items == {KeyValue(KeyB, Val1), KeyValue(KeyA, Val1), KeyValue(KeyA, Val2),
          KeyValue(KeyAB, Val1), Malformed}
ConcItems == {KeyValue(KeyB, Val1), KeyValue(KeyA, Val1)}

Paths == {"mrtmp.job-res-0", "mrtmp.job-res-1"}

SeqsUpTo(S, len) == UNION {[1..l -> S] : l \in 0..len}

NoFile == [exists |-> FALSE, data |-> <<>>]
File(d) == [exists |-> TRUE, data |-> d]

\* The intermediate files one invocation may find: m files holding at most recs items together.
ShardFiles(items, len) == {NoFile} \cup {File(d) : d \in SeqsUpTo(items, len)}
RECURSIVE ShardSeqs(_, _, _)
ShardSeqs(items, m, recs) ==
    IF m = 0 THEN {<<>>}
    ELSE UNION {{<<f>> \o rest : rest \in ShardSeqs(items, m - 1, recs - Len(f.data))} :
                f \in ShardFiles(items, recs)}
ShardSets(items, maxMap, recs) == UNION {ShardSeqs(items, m, recs) : m \in 0..maxMap}

nMap(t) == Len(shards[t])

----------------------------------------------------------------------------
\* s < t on Go strings.
RECURSIVE StrLess(_, _)
StrLess(s, t) ==
    IF s = <<>> THEN t # <<>>
    ELSE IF t = <<>> THEN FALSE
    ELSE IF Head(s) # Head(t) THEN Head(s) < Head(t)
    ELSE StrLess(Tail(s), Tail(t))

RECURSIVE Insert(_, _)
Insert(k, s) ==
    IF s = <<>> THEN <<k>>
    ELSE IF StrLess(Head(s), k) THEN <<Head(s)>> \o Insert(k, Tail(s))
    ELSE <<k>> \o s

RECURSIVE SortStrings(_)
SortStrings(s) == IF s = <<>> THEN <<>> ELSE Insert(Head(s), SortStrings(Tail(s)))

\* The orders in which `for k := range kvs` may yield the keys of a map.
RangeOrders(m) ==
    {p \in [1..Cardinality(DOMAIN m) -> DOMAIN m] : \A x \in DOMAIN m : \E j \in DOMAIN p : p[j] = x}

\* kvs[k] = append(kvs[k], v)
MapAppend(m, k, v) ==
    [x \in DOMAIN m \cup {k} |->
        IF x = k THEN (IF k \in DOMAIN m THEN Append(m[k], v) ELSE <<v>>) ELSE m[x]]

reduceF(key, values) == [key |-> key, values |-> values]

\* What Decode meets next in shard m of t.
Rest(t, m) == Len(shards[t][m].data) - decoders[t][m]
NextItem(t, m) == shards[t][m].data[decoders[t][m] + 1]
DecodeOk(t, m) == Rest(t, m) > 0 /\ NextItem(t, m).ok

----------------------------------------------------------------------------
\* The state in which the invocations ids start, over the given inputs.
InitWith(ids, paths, items, maxMap, recs) ==
    /\ shards \in [ids -> ShardSets(items, maxMap, recs)]
    /\ outFile \in [ids -> paths]
    /\ files = [p \in Paths |-> NoFile]
    /\ pc = [t \in ids |-> "open"]
    /\ i = [t \in ids |-> 0]
    /\ decoders = [t \in ids |-> [m \in 1..Len(shards[t]) |-> Nil]]
    /\ kv = [t \in ids |-> NilKV]
    /\ kvs = [t \in ids |-> <<>>]
    /\ keys = [t \in ids |-> <<>>]
    /\ n = [t \in ids |-> 0]
    /\ res = [t \in ids |-> reduceF(<<>>, <<>>)]
    /\ calls = [t \in ids |-> <<>>]
    /\ run = [t \in ids |-> 1]
    /\ before = [t \in ids |-> NoFile]

\* The invocations of the two settings: one task alone, two tasks together.
Single == {1}
Pair == {1, 2}

Init == InitWith(Single, {"mrtmp.job-res-0"}, Items, MaxMap, MaxRecs)
\* (the two paths are alike, so the first invocation is given the first one)
InitConc == InitWith(Pair, Paths, ConcItems, ConcMaxMap, ConcMaxRecs) /\ outFile[1] = "mrtmp.job-res-0"

\* lines 56-65: one iteration of the open loop, the file is there
OpenShard(t) ==
    /\ pc[t] = "open" /\ i[t] < nMap(t)
    /\ shards[t][i[t] + 1].exists
    /\ decoders' = [decoders EXCEPT ![t][i[t] + 1] = 0]
    /\ i' = [i EXCEPT ![t] = @ + 1]
    /\ UNCHANGED <<shards, files, outFile, pc, kv, kvs, keys, n, res, calls, run, before>>

\* A variant of OpenShardFail: the missing file is passed over as an empty one.
OpenShardSkip(t) ==
    /\ pc[t] = "open" /\ i[t] < nMap(t)
    /\ ~shards[t][i[t] + 1].exists
    /\ decoders' = [decoders EXCEPT ![t][i[t] + 1] = 0]
    /\ i' = [i EXCEPT ![t] = @ + 1]
    /\ UNCHANGED <<shards, files, outFile, pc, kv, kvs, keys, n, res, calls, run, before>>

\* lines 58-62: the file cannot be opened, log.Panicf
OpenShardFail(t) ==
    /\ pc[t] = "open" /\ i[t] < nMap(t)
    /\ ~shards[t][i[t] + 1].exists
    /\ pc' = [pc EXCEPT ![t] = "fatal"]
    /\ UNCHANGED <<shards, files, outFile, i, decoders, kv, kvs, keys, n, res, calls, run, before>>

\* lines 56, 68, 70: the open loop ends, kvs is made, the read loop starts
StartRead(t) ==
    /\ pc[t] = "open" /\ i[t] = nMap(t)
    /\ kvs' = [kvs EXCEPT ![t] = <<>>]
    /\ i' = [i EXCEPT ![t] = 0]
    /\ pc' = [pc EXCEPT ![t] = "decode"]
    /\ UNCHANGED <<shards, files, outFile, decoders, kv, keys, n, res, calls, run, before>>

\* line 73: Decode yields a record
Decode(t) ==
    /\ pc[t] = "decode" /\ i[t] < nMap(t)
    /\ DecodeOk(t, i[t] + 1)
    /\ kv' = [kv EXCEPT ![t] = NextItem(t, i[t] + 1)]
    /\ decoders' = [decoders EXCEPT ![t][i[t] + 1] = @ + 1]
    /\ pc' = [pc EXCEPT ![t] = "group"]
    /\ UNCHANGED <<shards, files, outFile, i, kvs, keys, n, res, calls, run, before>>

\* A variant of DecodeErr: the break leaves the loop over the shards as well.
DecodeErrEndsRead(t) ==
    /\ pc[t] = "decode" /\ i[t] < nMap(t)
    /\ ~DecodeOk(t, i[t] + 1)
    /\ i' = [i EXCEPT ![t] = nMap(t)]
    /\ kv' = [kv EXCEPT ![t] = NilKV]
    /\ UNCHANGED <<shards, files, outFile, pc, decoders, kvs, keys, n, res, calls, run, before>>

\* A variant of DecodeErr: an error that is not the end of the file is fatal.
DecodeErrFatal(t) ==
    /\ pc[t] = "decode" /\ i[t] < nMap(t)
    /\ ~DecodeOk(t, i[t] + 1)
    /\ i' = [i EXCEPT ![t] = IF Rest(t, @ + 1) > 0 THEN @ ELSE @ + 1]
    /\ pc' = [pc EXCEPT ![t] = IF Rest(t, i[t] + 1) > 0 THEN "fatal" ELSE @]
    /\ kv' = [kv EXCEPT ![t] = NilKV]
    /\ UNCHANGED <<shards, files, outFile, decoders, kvs, keys, n, res, calls, run, before>>

\* A variant of DecodeErr: a malformed item is passed over and the scan of the file goes on.
DecodeErrSkip(t) ==
    /\ pc[t] = "decode" /\ i[t] < nMap(t)
    /\ ~DecodeOk(t, i[t] + 1)
    /\ i' = [i EXCEPT ![t] = IF Rest(t, @ + 1) > 0 THEN @ ELSE @ + 1]
    /\ decoders' = [decoders EXCEPT ![t][i[t] + 1] = IF Rest(t, i[t] + 1) > 0 THEN @ + 1 ELSE @]
    /\ kv' = [kv EXCEPT ![t] = NilKV]
    /\ UNCHANGED <<shards, files, outFile, pc, kvs, keys, n, res, calls, run, before>>

\* lines 70-76: Decode returns an error (end of the file or a malformed item): break, and the
\* next iteration declares kv anew
DecodeErr(t) ==
    /\ pc[t] = "decode" /\ i[t] < nMap(t)
    /\ ~DecodeOk(t, i[t] + 1)
    /\ i' = [i EXCEPT ![t] = @ + 1]
    /\ kv' = [kv EXCEPT ![t] = NilKV]
    /\ UNCHANGED <<shards, files, outFile, pc, decoders, kvs, keys, n, res, calls, run, before>>

\* A variant of Group: kvs is one map shared by the invocations.
GroupShared(t) ==
    /\ pc[t] = "group"
    /\ kvs' = [u \in DOMAIN kvs |-> MapAppend(kvs[u], kv[t].Key, kv[t].Value)]
    /\ pc' = [pc EXCEPT ![t] = "decode"]
    /\ UNCHANGED <<shards, files, outFile, i, decoders, kv, keys, n, res, calls, run, before>>

\* line 77
Group(t) ==
    /\ pc[t] = "group"
    /\ kvs' = [kvs EXCEPT ![t] = MapAppend(@, kv[t].Key, kv[t].Value)]
    /\ pc' = [pc EXCEPT ![t] = "decode"]
    /\ UNCHANGED <<shards, files, outFile, i, decoders, kv, keys, n, res, calls, run, before>>

\* A variant of RangeKeys: the read loop stops one shard early (i < nMap-1).
RangeKeysEarly(t) ==
    /\ pc[t] = "decode" /\ i[t] >= nMap(t) - 1
    /\ \E p \in RangeOrders(kvs[t]) : keys' = [keys EXCEPT ![t] = p]
    /\ pc' = [pc EXCEPT ![t] = "sort"]
    /\ UNCHANGED <<shards, files, outFile, i, decoders, kv, kvs, n, res, calls, run, before>>

\* lines 70, 81-86: the read loop ends, the keys are taken from the map in the order range yields
RangeKeys(t) ==
    /\ pc[t] = "decode" /\ i[t] = nMap(t)
    /\ \E p \in RangeOrders(kvs[t]) : keys' = [keys EXCEPT ![t] = p]
    /\ pc' = [pc EXCEPT ![t] = "sort"]
    /\ UNCHANGED <<shards, files, outFile, i, decoders, kv, kvs, n, res, calls, run, before>>

\* A variant of Sorted: the keys stay in the order range gave.
Unsorted(s) == s

\* line 88
Sorted(s) == SortStrings(s)
SortKeys(t) ==
    /\ pc[t] = "sort"
    /\ keys' = [keys EXCEPT ![t] = Sorted(@)]
    /\ pc' = [pc EXCEPT ![t] = "create"]
    /\ UNCHANGED <<shards, files, outFile, i, decoders, kv, kvs, n, res, calls, run, before>>

\* A variant of Opened: O_TRUNC in place of O_APPEND.
OpenedTrunc(f) == File(<<>>)

\* line 90: O_CREATE|O_APPEND|O_WRONLY leaves what the file holds
Opened(f) == File(f.data)
OpenOutput(t) ==
    /\ pc[t] = "create"
    /\ files' = [files EXCEPT ![outFile[t]] = Opened(@)]
    /\ n' = [n EXCEPT ![t] = 0]
    /\ pc' = [pc EXCEPT ![t] = "reduce"]
    /\ UNCHANGED <<shards, outFile, i, decoders, kv, kvs, keys, res, calls, run, before>>

\* lines 90-94: the output file cannot be opened, log.Panicf
OpenOutputFail(t) ==
    /\ pc[t] = "create"
    /\ pc' = [pc EXCEPT ![t] = "fatal"]
    /\ UNCHANGED <<shards, files, outFile, i, decoders, kv, kvs, keys, n, res, calls, run, before>>

\* line 99: reduceF(key, kvs[key]) for the next key
CallReduceF(t) ==
    /\ pc[t] = "reduce" /\ n[t] < Len(keys[t])
    /\ LET key == keys[t][n[t] + 1] IN
        /\ res' = [res EXCEPT ![t] = reduceF(key, kvs[t][key])]
        /\ calls' = [calls EXCEPT ![t] = Append(@, [key |-> key, values |-> kvs[t][key]])]
    /\ pc' = [pc EXCEPT ![t] = "encode"]
    /\ UNCHANGED <<shards, files, outFile, i, decoders, kv, kvs, keys, n, run, before>>

\* line 99: encoder.Encode(KeyValue{key, ...}) on a file opened with O_APPEND
Written(f, rec) == File(Append(f.data, rec))
Encode(t) ==
    /\ pc[t] = "encode"
    /\ files' = [files EXCEPT ![outFile[t]] = Written(@, [Key |-> keys[t][n[t] + 1], Value |-> res[t]])]
    /\ n' = [n EXCEPT ![t] = @ + 1]
    /\ pc' = [pc EXCEPT ![t] = "reduce"]
    /\ UNCHANGED <<shards, outFile, i, decoders, kv, kvs, keys, res, calls, run, before>>

\* lines 98, 102: the loop ends, doReduce returns
Return(t) ==
    /\ pc[t] = "reduce" /\ n[t] = Len(keys[t])
    /\ pc' = [pc EXCEPT ![t] = "done"]
    /\ UNCHANGED <<shards, files, outFile, i, decoders, kv, kvs, keys, n, res, calls, run, before>>

\* lines 11-17, 55: the caller invokes doReduce again with the same arguments
Reinvoke(t) ==
    /\ pc[t] \in {"done", "fatal"} /\ run[t] < MaxRuns
    /\ run' = [run EXCEPT ![t] = @ + 1]
    /\ before' = [before EXCEPT ![t] = files[outFile[t]]]
    /\ pc' = [pc EXCEPT ![t] = "open"]
    /\ i' = [i EXCEPT ![t] = 0]
    /\ decoders' = [decoders EXCEPT ![t] = [m \in 1..nMap(t) |-> Nil]]
    /\ kv' = [kv EXCEPT ![t] = NilKV]
    /\ kvs' = [kvs EXCEPT ![t] = <<>>]
    /\ keys' = [keys EXCEPT ![t] = <<>>]
    /\ n' = [n EXCEPT ![t] = 0]
    /\ res' = [res EXCEPT ![t] = reduceF(<<>>, <<>>)]
    /\ calls' = [calls EXCEPT ![t] = <<>>]
    /\ UNCHANGED <<shards, files, outFile>>

\* One task, which its caller may run again.
Next ==
    \E t \in Single :
        \/ OpenShard(t)
        \/ OpenShardFail(t)
        \/ StartRead(t)
        \/ Decode(t)
        \/ DecodeErr(t)
        \/ Group(t)
        \/ RangeKeys(t)
        \/ SortKeys(t)
        \/ OpenOutput(t)
        \/ OpenOutputFail(t)
        \/ CallReduceF(t)
        \/ Encode(t)
        \/ Return(t)
        \/ Reinvoke(t)
Spec == Init /\ [][Next]_vars

\* Two invocations running together, each once.
NextConc ==
    \E t \in Pair :
        \/ OpenShard(t)
        \/ OpenShardFail(t)
        \/ StartRead(t)
        \/ Decode(t)
        \/ DecodeErr(t)
        \/ Group(t)
        \/ RangeKeys(t)
        \/ SortKeys(t)
        \/ OpenOutput(t)
        \/ OpenOutputFail(t)
        \/ CallReduceF(t)
        \/ Encode(t)
        \/ Return(t)
SpecConc == InitConc /\ [][NextConc]_vars

----------------------------------------------------------------------------
\* What the claims speak of, computed from the files alone.

Ids == DOMAIN pc
Data(t, m) == shards[t][m].data

\* The items of d a decoder yields before its first error.
RECURSIVE Readable(_)
Readable(d) ==
    IF d = <<>> \/ ~Head(d).ok THEN <<>> ELSE <<Head(d)>> \o Readable(Tail(d))

\* The values of the records of d with key k, in the order they are stored.
RECURSIVE ValuesOf(_, _)
ValuesOf(d, k) ==
    IF d = <<>> THEN <<>>
    ELSE (IF Head(d).ok /\ Head(d).Key = k THEN <<Head(d).Value>> ELSE <<>>) \o ValuesOf(Tail(d), k)

\* The occurrences of k in shards 1..m of t, shard by shard; Stored: every record
\* the files hold, Scanned: the records before the first malformed item of each file.
RECURSIVE Stored(_, _, _)
Stored(t, k, m) == IF m = 0 THEN <<>> ELSE Stored(t, k, m - 1) \o ValuesOf(Data(t, m), k)
RECURSIVE Scanned(_, _, _)
Scanned(t, k, m) == IF m = 0 THEN <<>> ELSE Scanned(t, k, m - 1) \o ValuesOf(Readable(Data(t, m)), k)

StoredKeys(t) ==
    UNION {{Data(t, m)[j].Key : j \in {l \in DOMAIN Data(t, m) : Data(t, m)[l].ok}} : m \in 1..nMap(t)}
ScannedKeys(t) == {k \in StoredKeys(t) : Scanned(t, k, nMap(t)) # <<>>}

AllThere(t) == \A m \in 1..nMap(t) : shards[t][m].exists
WellFormed(t) == \A m \in 1..nMap(t) : Readable(Data(t, m)) = Data(t, m)

StrictlyAscending(s) == \A a, b \in DOMAIN s : a < b => StrLess(s[a], s[b])
Ascending(S) == CHOOSE s \in [1..Cardinality(S) -> S] : StrictlyAscending(s)
KeysOf(recs) == [j \in DOMAIN recs |-> recs[j].Key]

\* The records one complete run over the scanned records writes.
Expected(t) ==
    LET asc == Ascending(ScannedKeys(t)) IN
    [j \in DOMAIN asc |-> [Key |-> asc[j], Value |-> reduceF(asc[j], Scanned(t, asc[j], nMap(t)))]]

Out(t) == files[outFile[t]].data
\* The records the current run of t has added to its output file (t its only writer).
New(t) == SubSeq(Out(t), Len(before[t].data) + 1, Len(Out(t)))
IsPrefix(s, r) == Len(s) <= Len(r) /\ SubSeq(r, 1, Len(s)) = s

----------------------------------------------------------------------------
\* C1: when doReduce completes over well-formed records against an output file that
\* did not exist, the keys of the output file are the distinct keys of the shards and
\* each key is in exactly one record.
C1_KeySet ==
    \A t \in Ids :
        (pc[t] = "done" /\ WellFormed(t) /\ ~before[t].exists) =>
            /\ {Out(t)[j].Key : j \in DOMAIN Out(t)} = StoredKeys(t)
            /\ \A k \in StoredKeys(t) : Cardinality({j \in DOMAIN Out(t) : Out(t)[j].Key = k}) = 1

C1_Witness ==
    /\ pc[1] = "done" /\ WellFormed(1) /\ ~before[1].exists
    /\ nMap(1) = 2 /\ Cardinality(StoredKeys(1)) = 2
    /\ \E k \in StoredKeys(1) : ValuesOf(Data(1, 1), k) # <<>> /\ ValuesOf(Data(1, 2), k) # <<>>

\* C2: the value list passed to reduceF for key k is the concatenation of all the
\* occurrences of k the shards hold, shard by shard and in stored order, none dropped.
C2_AllOccurrences ==
    \A t \in Ids : \A j \in DOMAIN calls[t] :
        calls[t][j].values = Stored(t, calls[t][j].key, nMap(t))

\* C2, where it holds: the value list is made of the occurrences Decode yields, which
\* are all the occurrences when no item of the shards is malformed.
C2_ScannedOccurrences ==
    \A t \in Ids : \A j \in DOMAIN calls[t] :
        /\ calls[t][j].values = Scanned(t, calls[t][j].key, nMap(t))
        /\ WellFormed(t) => calls[t][j].values = Stored(t, calls[t][j].key, nMap(t))

\* C3: after any invocation that completes, the records of the output file are
\* strictly ascending by key.
C3_OutputAscending ==
    \A t \in Ids : pc[t] = "done" => StrictlyAscending(KeysOf(Out(t)))

\* C3, where it holds: the records one run adds are strictly ascending by key, and so
\* is the file when the run found it absent or empty.
C3_RunAscending ==
    \A t \in Ids :
        /\ StrictlyAscending(KeysOf(New(t)))
        /\ (pc[t] = "done" /\ before[t].data = <<>>) => StrictlyAscending(KeysOf(Out(t)))

\* C4: within one invocation reduceF is invoked once for each distinct key, in
\* ascending key order, and the record of a key is written before reduceF is invoked
\* for the next key.
CallKeys(t) == [j \in DOMAIN calls[t] |-> calls[t][j].key]
C4_OncePerKeyInOrder ==
    \A t \in Ids :
        /\ StrictlyAscending(CallKeys(t))
        /\ Len(New(t)) = (IF pc[t] = "encode" THEN Len(calls[t]) - 1 ELSE Len(calls[t]))
        /\ \A j \in DOMAIN New(t) :
              New(t)[j] = [Key |-> calls[t][j].key, Value |-> reduceF(calls[t][j].key, calls[t][j].values)]
        /\ pc[t] = "done" => {calls[t][j].key : j \in DOMAIN calls[t]} = ScannedKeys(t)

C4_Witness == pc[1] = "encode" /\ Len(calls[1]) = 2 /\ Len(New(1)) = 1 /\ Cardinality(ScannedKeys(1)) = 3

\* C5: reduceF is not invoked and the output file is not touched before the scan of
\* every one of the nMap shards has ended, at the end of the file or, as the decode
\* loop takes it, at the first item Decode fails on.
ScanEnd(d) == Len(Readable(d))
C5_Barrier ==
    \A t \in Ids :
        (calls[t] # <<>> \/ files[outFile[t]] # before[t]) =>
            /\ i[t] = nMap(t)
            /\ \A m \in 1..nMap(t) : decoders[t][m] = ScanEnd(Data(t, m))
            /\ WellFormed(t) => \A m \in 1..nMap(t) : decoders[t][m] = Len(Data(t, m))

C5_Witness ==
    /\ calls[1] # <<>> /\ pc[1] = "encode" /\ nMap(1) = 2
    /\ Len(Data(1, 1)) >= 1 /\ Len(Data(1, 2)) >= 2 /\ WellFormed(1)

\* C6: when one of the shard files cannot be opened, doReduce aborts at that shard
\* without passing it over: no record is decoded, reduceF is not invoked and the
\* output file is neither created nor modified.
FirstMissing(t) == CHOOSE m \in 1..nMap(t) : ~shards[t][m].exists /\ \A l \in 1..(m - 1) : shards[t][l].exists
C6_MissingShardAborts ==
    \A t \in Ids :
        ~AllThere(t) =>
            /\ pc[t] \in {"open", "fatal"}
            /\ i[t] < FirstMissing(t)
            /\ pc[t] = "fatal" => i[t] = FirstMissing(t) - 1
            /\ \A m \in 1..nMap(t) : decoders[t][m] \in {Nil, 0}
            /\ \A m \in FirstMissing(t)..nMap(t) : decoders[t][m] = Nil
            /\ calls[t] = <<>>
            /\ files[outFile[t]] = before[t] /\ ~files[outFile[t]].exists

C6_Witness ==
    /\ pc[1] = "fatal" /\ nMap(1) = 2 /\ decoders[1][1] = 0
    /\ Len(Data(1, 1)) >= 2 /\ ~shards[1][2].exists

\* C7: of two invocations that run together with distinct output paths, each
\* leaves in its output file what it leaves there when it runs alone, whatever the
\* interleaving.
C7_NoInterference ==
    \A t \in Ids :
        (\A u \in Ids \ {t} : outFile[u] # outFile[t]) =>
            /\ IsPrefix(Out(t), Expected(t))
            /\ pc[t] = "done" => files[outFile[t]] = File(Expected(t))
            /\ pc[t] = "fatal" => files[outFile[t]] = NoFile
            /\ ~AllThere(t) => files[outFile[t]] = NoFile

C7_Witness ==
    /\ Ids = Pair /\ outFile[1] # outFile[2]
    /\ pc[1] = "encode" /\ Len(Out(1)) = 1 /\ Len(Expected(1)) = 2
    /\ pc[2] = "encode" /\ Len(Out(2)) = 1 /\ Len(Expected(2)) = 2

\* C8: doReduce never truncates or replaces the output file: a run that completes
\* leaves what the file held followed by the records of this run, so that the second
\* run of a task against the same path leaves every record twice.
C8_Appends ==
    \A t \in Ids :
        /\ IsPrefix(before[t].data, Out(t))
        /\ before[t].exists => files[outFile[t]].exists
        /\ pc[t] = "done" => files[outFile[t]] = File(before[t].data \o Expected(t))
        /\ (pc[t] = "done" /\ run[t] = 2 /\ before[t].exists) => Out(t) = Expected(t) \o Expected(t)

C8_Witness == pc[1] = "done" /\ run[1] = 2 /\ Len(before[1].data) = 2 /\ Len(Out(1)) = 4

\* The phase of the task state machine a place of doReduce belongs to.
PhaseOf(p) ==
    CASE p = "open" -> "OPENING_INPUTS"
      [] p = "decode" -> "READING"
      [] p = "group" -> "GROUPING"
      [] p = "sort" -> "SORTING"
      [] p \in {"create", "reduce", "encode"} -> "REDUCING_AND_WRITING"
      [] p = "done" -> "DONE"
      [] p = "fatal" -> "FATAL"
Rank(ph) ==
    CASE ph = "OPENING_INPUTS" -> 1
      [] ph = "READING" -> 2
      [] ph = "GROUPING" -> 3
      [] ph = "SORTING" -> 4
      [] ph = "REDUCING_AND_WRITING" -> 5
      [] ph = "DONE" -> 6
      [] ph = "FATAL" -> 7

\* FATAL is entered from OPENING_INPUTS at a shard that cannot be opened or from
\* REDUCING_AND_WRITING at the opening of the output file, and nothing follows it
\* within the invocation.
FatalRule(t) ==
    /\ (pc'[t] = "fatal" /\ pc[t] # "fatal") =>
          \/ pc[t] = "open" /\ i[t] < nMap(t) /\ ~shards[t][i[t] + 1].exists
          \/ pc[t] = "create" /\ calls[t] = <<>> /\ files[outFile[t]] = before[t]
    /\ pc[t] \in {"fatal", "done"} =>
          /\ pc'[t] = pc[t] /\ calls'[t] = calls[t] /\ files' = files
          /\ decoders'[t] = decoders[t] /\ kvs'[t] = kvs[t]

\* C9 as stated: the phases follow one another in the order OPENING_INPUTS, READING,
\* GROUPING, SORTING, REDUCING_AND_WRITING, DONE without going back; FATAL is entered
\* only from OPENING_INPUTS or REDUCING_AND_WRITING and is final.
C9_InOrderNeverBack ==
    [][\A t \in Single :
          run'[t] = run[t] =>
              /\ pc'[t] # "fatal" => Rank(PhaseOf(pc[t])) <= Rank(PhaseOf(pc'[t]))
              /\ FatalRule(t)]_vars

\* C9 amended: READING and GROUPING alternate, one GROUPING step after each record
\* decoded and then READING again; apart from that step the phases follow one another
\* in the stated order, and FATAL is as stated.
PhaseSteps ==
    {<<"OPENING_INPUTS", "READING">>, <<"READING", "GROUPING">>, <<"GROUPING", "READING">>,
     <<"READING", "SORTING">>, <<"SORTING", "REDUCING_AND_WRITING">>,
     <<"REDUCING_AND_WRITING", "DONE">>,
     <<"OPENING_INPUTS", "FATAL">>, <<"REDUCING_AND_WRITING", "FATAL">>}
C9_PhasesAlternate ==
    [][\A t \in Single :
          run'[t] = run[t] =>
              /\ \/ PhaseOf(pc'[t]) = PhaseOf(pc[t]) /\ PhaseOf(pc[t]) # "GROUPING"
                 \/ <<PhaseOf(pc[t]), PhaseOf(pc'[t])>> \in PhaseSteps
              /\ (PhaseOf(pc[t]) = "READING" /\ PhaseOf(pc'[t]) = "GROUPING") =>
                    decoders'[t][i[t] + 1] = decoders[t][i[t] + 1] + 1
              /\ FatalRule(t)]_vars

C9_Witness == pc[1] = "done" /\ nMap(1) = 2 /\ decoders[1][1] = 1 /\ decoders[1][2] = 2

\* C10: a decode failure is handled as the end of the shard: the scan of the shard
\* stops there, the records grouped from it are kept, the next shard is read and the
\* invocation completes, its output lacking the records after the malformed item.
C10_DecodeFailureEndsShard ==
    \A t \in Ids :
        /\ \A m \in 1..nMap(t) : decoders[t][m] <= ScanEnd(Data(t, m))
        /\ pc[t] = "done" =>
              /\ \A m \in 1..nMap(t) : decoders[t][m] = ScanEnd(Data(t, m))
              /\ New(t) = Expected(t)
              /\ \A k \in StoredKeys(t) \ ScannedKeys(t) : \A j \in DOMAIN New(t) : New(t)[j].Key # k
        /\ pc[t] = "fatal" => (~AllThere(t) \/ (i[t] = nMap(t) /\ calls[t] = <<>>))

C10_Witness ==
    /\ pc[1] = "done" /\ nMap(1) = 2
    /\ Len(Data(1, 1)) = 2 /\ ~Data(1, 1)[1].ok /\ Data(1, 1)[2].ok
    /\ Data(1, 1)[2].Key \notin ScannedKeys(1)
    /\ Len(New(1)) = 1

====
